---- MODULE Spec2Model ----
(***************************************************************************)
(* Model of scripts/deploy.py: a brownie script that loads an account,     *)
(* looks up the registry of the connected chain, deploys a                 *)
(* ChildChainGaugeInjector and transfers its ownership to ADMIN_ADDRESS.   *)
(*                                                                         *)
(* One run of the script is the sequence of steps                          *)
(*   LoadAccount -> LookupRegistry -> Deploy -> TransferOwnership          *)
(* each of which either returns or raises; an exception is never caught,   *)
(* so it ends the run.  The operator may run the script again (StartRun),  *)
(* possibly connected to another network; the chain state (the deployed    *)
(* contracts) and the history of calls persist across runs.                *)
(***************************************************************************)
EXTENDS Integers, Sequences, FiniteSets, TLC

VARIABLES
    pc,         \* position of the script inside the current run
    run,        \* number of the current run (0: the script never ran)
    chainId,    \* brownie's chain.id for the current run
    account,    \* module global `account` (line 9)
    registry,   \* evaluated first argument REGISTRY_BY_CHAIN[chain.id] (line 28)
    injector,   \* module global `injector` (line 27): index into contracts, 0 = unbound
    contracts,  \* on-chain state: the injector contracts that exist
    log         \* every step performed so far, in order, over all runs

vars == <<pc, run, chainId, account, registry, injector, contracts, log>>

----------------------------------------------------------------------------
(* Bounds and inputs *)

MaxRuns == 2

\* Chain IDs of the networks named in the comment of line 10 (mainnet is not
\* a key of the tables) plus one more unsupported network.
OtherChains == {1, 10}

\* Addresses the keystore entry "tmdelegate" may hold.
Deployers == { "0x1111111111111111111111111111111111111111",
               "0x2222222222222222222222222222222222222222" }

NoAccount == "<unbound>"
NoRegistry == "<unevaluated>"

----------------------------------------------------------------------------
(* Module constants of deploy.py *)

ADMIN_ADDRESS == "0xc38c5f97B34E175FFd35407fc91a937300E33860"

UPKEEP_CALLER_ADDRESS == ""

TOKEN_ADDRESS == ""

\* variant: the two registry literals entered under each other's chain ID
REGISTRY_BY_CHAIN_Swapped ==
    (42161 :> "0x02777053d6764996e594c3E88AF1D58D5363a2e6") @@
    (137 :> "0x75c0530885F385721fddA23C539AF3701d6183D4")

REGISTRY_BY_CHAIN ==
    (42161 :> "0x75c0530885F385721fddA23C539AF3701d6183D4") @@
    (137 :> "0x02777053d6764996e594c3E88AF1D58D5363a2e6")

LINK_BY_CHAIN ==
    (42161 :> "0xf97f4df75117a78c1A5a0DBb814Af92458539FB4") @@
    (137 :> "0xb0897686c545045aFc77CF20eC7A532E3120E0F1")

ChainIds == DOMAIN REGISTRY_BY_CHAIN \cup OtherChains

\* An address string is "0x" followed by 40 hex digits: 42 characters.
AddressLen == 42

IsAddressString(s) == Len(s) = AddressLen

----------------------------------------------------------------------------
(* Arguments of the two framework calls, as the script writes them *)

\* line 29: the expression 60 * 60 * 6
MinWaitPeriodSeconds == 60 * 60 * 6

\* line 30 (variant: the per-chain LINK token in place of TOKEN_ADDRESS)
TokenArg_Link == LINK_BY_CHAIN[chainId]

TokenArg == TOKEN_ADDRESS

\* the names the deploy call reads (lines 28-31)
DeployReads == {"REGISTRY_BY_CHAIN", "TOKEN_ADDRESS", "account"}

\* line 31: {"from": account} (variant: sent from ADMIN_ADDRESS)
DeploySender_Admin == ADMIN_ADDRESS

DeploySender == account

\* line 35: first argument of transferOwnership (variant: the deployer itself)
TransferTarget_Account == account

TransferTarget == ADMIN_ADDRESS

\* line 35: {"from": account}
TransferSender == account

\* the names the transferOwnership call reads (line 35)
TransferReads == {"ADMIN_ADDRESS", "account", "injector"}

----------------------------------------------------------------------------
(* The contract, as far as the script depends on it *)

\* the contract's constructor makes the sender of the deployment its owner
ConstructorOwner(sender) == sender

\* transferOwnership(to) hands the contract to `to`
OwnerAfterTransfer(c, to) == [c EXCEPT !.owner = to]

----------------------------------------------------------------------------
(* Steps *)

\* No statement of the script is inside a try block: an exception raised by
\* any step leaves the script, whatever the position was.  (Variants: the
\* failed statement is attempted again; the exception is swallowed and the
\* script goes on with the next statement.)
AfterFault_Retry == pc

AfterFault_Continue ==
    CASE pc = "start" -> "loaded"
      [] pc = "loaded" -> "lookedup"
      [] pc = "lookedup" -> "deployed"
      [] OTHER -> "done"

AfterFault == "faulted"

Entry(op, args, reads, from, ok) ==
    [run |-> run, chain |-> chainId, op |-> op, args |-> args,
     reads |-> reads, from |-> from, ok |-> ok]

Init ==
    /\ pc = "idle"
    /\ run = 0
    /\ chainId = 0
    /\ account = NoAccount
    /\ registry = NoRegistry
    /\ injector = 0
    /\ contracts = << >>
    /\ log = << >>

\* the operator runs the script against a network; a run starts with fresh
\* module globals, the chain keeps its contracts
StartRun ==
    /\ pc \in {"idle", "done", "faulted"}
    /\ run < MaxRuns
    /\ \E c \in ChainIds : chainId' = c
    /\ run' = run + 1
    /\ pc' = "start"
    /\ account' = NoAccount
    /\ registry' = NoRegistry
    /\ injector' = 0
    /\ UNCHANGED <<contracts, log>>

\* line 9: account = accounts.load("tmdelegate")
LoadAccount ==
    /\ pc = "start"
    /\ \/ \E a \in Deployers :
             /\ account' = a
             /\ pc' = "loaded"
             /\ log' = Append(log, Entry("load", [name |-> "tmdelegate", result |-> a], {}, NoAccount, TRUE))
       \/ /\ pc' = AfterFault
          /\ log' = Append(log, Entry("load", [name |-> "tmdelegate", result |-> NoAccount], {}, NoAccount, FALSE))
          /\ UNCHANGED account
    /\ UNCHANGED <<run, chainId, registry, injector, contracts>>

\* REGISTRY_BY_CHAIN.get(chain.id, "") in place of the subscription
LookupRegistry_Get ==
    /\ pc = "loaded"
    /\ registry' = IF chainId \in DOMAIN REGISTRY_BY_CHAIN
                     THEN REGISTRY_BY_CHAIN[chainId] ELSE ""
    /\ pc' = "lookedup"
    /\ log' = Append(log, Entry("lookup", [key |-> chainId], {"REGISTRY_BY_CHAIN"}, NoAccount, TRUE))
    /\ UNCHANGED <<run, chainId, account, injector, contracts>>

\* line 28: REGISTRY_BY_CHAIN[chain.id], a KeyError when the key is absent
LookupRegistry ==
    /\ pc = "loaded"
    /\ IF chainId \in DOMAIN REGISTRY_BY_CHAIN
         THEN /\ registry' = REGISTRY_BY_CHAIN[chainId]
              /\ pc' = "lookedup"
              /\ log' = Append(log, Entry("lookup", [key |-> chainId], {"REGISTRY_BY_CHAIN"}, NoAccount, TRUE))
         ELSE /\ pc' = AfterFault
              /\ log' = Append(log, Entry("lookup", [key |-> chainId], {"REGISTRY_BY_CHAIN"}, NoAccount, FALSE))
              /\ UNCHANGED registry
    /\ UNCHANGED <<run, chainId, account, injector, contracts>>

DeployArgs ==
    [registry |-> registry, minWaitPeriodSeconds |-> MinWaitPeriodSeconds, token |-> TokenArg]

\* lines 27-33: injector = ChildChainGaugeInjector.deploy(...)
Deploy ==
    /\ pc = "lookedup"
    /\ \/ /\ contracts' = Append(contracts,
                 [chain |-> chainId, run |-> run,
                  owner |-> ConstructorOwner(DeploySender),
                  registry |-> DeployArgs.registry,
                  minWaitPeriodSeconds |-> DeployArgs.minWaitPeriodSeconds,
                  token |-> DeployArgs.token])
          /\ injector' = Len(contracts) + 1
          /\ pc' = "deployed"
          /\ log' = Append(log, Entry("deploy", DeployArgs, DeployReads, DeploySender, TRUE))
       \/ /\ pc' = AfterFault
          /\ log' = Append(log, Entry("deploy", DeployArgs, DeployReads, DeploySender, FALSE))
          /\ UNCHANGED <<injector, contracts>>
    /\ UNCHANGED <<run, chainId, account, registry>>

\* line 35: injector.transferOwnership(ADMIN_ADDRESS, {"from": account}),
\* a statement that follows the assignment of `injector` (positions = where
\* the statement stands in the file)
TransferOwnershipAt(positions) ==
    /\ pc \in positions
    /\ \/ /\ contracts' = [k \in DOMAIN contracts |->
                             IF k = injector
                               THEN OwnerAfterTransfer(contracts[k], TransferTarget)
                               ELSE contracts[k]]
          /\ pc' = "done"
          /\ log' = Append(log, Entry("transferOwnership",
                                      [to |-> TransferTarget, contract |-> injector],
                                      TransferReads, TransferSender, TRUE))
       \/ /\ pc' = AfterFault
          /\ log' = Append(log, Entry("transferOwnership",
                                      [to |-> TransferTarget, contract |-> injector],
                                      TransferReads, TransferSender, FALSE))
          /\ UNCHANGED contracts
    /\ UNCHANGED <<run, chainId, account, registry, injector>>

TransferOwnership_BeforeDeploy == TransferOwnershipAt({"lookedup", "deployed"})

TransferOwnership == TransferOwnershipAt({"deployed"})

Next ==
    \/ StartRun
    \/ LoadAccount
    \/ LookupRegistry
    \/ Deploy
    \/ TransferOwnership

Spec == Init /\ [][Next]_vars

----------------------------------------------------------------------------
(* Reading the history *)

\* the steps of run r, in the order they were performed
RunEntries(r) == SelectSeq(log, LAMBDA e : e.run = r)

\* positions in the log of the calls of one operation
Entries(op) == { i \in DOMAIN log : log[i].op = op }

LastOp == IF log = << >> THEN "none" ELSE log[Len(log)].op

StepOrder == <<"load", "lookup", "deploy", "transferOwnership">>

----------------------------------------------------------------------------
(* Properties *)

\* C1: a run that completes without a fault leaves the deployed injector
\* owned by 0xc38c5f97B34E175FFd35407fc91a937300E33860; on every chain the
\* target of transferOwnership is that address, never the loaded deployer
\* account and never empty.
C1_AdminOwnsAfterCompletion ==
    /\ pc = "done" =>
         /\ injector \in DOMAIN contracts
         /\ contracts[injector].owner = "0xc38c5f97B34E175FFd35407fc91a937300E33860"
    /\ \A i \in Entries("transferOwnership") :
         /\ log[i].args.to = "0xc38c5f97B34E175FFd35407fc91a937300E33860"
         /\ log[i].args.to # log[i].from
         /\ log[i].args.to \notin Deployers
         /\ log[i].args.to # ""
         /\ log[i].ok =>
              contracts[log[i].args.contract].owner = "0xc38c5f97B34E175FFd35407fc91a937300E33860"

C1_Witness ==
    /\ pc = "done"
    /\ run = 2
    /\ \E i, j \in Entries("transferOwnership") :
         log[i].ok /\ log[j].ok /\ log[i].chain = 137 /\ log[j].chain = 42161

\* C2: the steps of a run happen in the order load, lookup, deploy,
\* transferOwnership, each one only after the previous one succeeded:
\* transferOwnership is never submitted before a successful deployment and
\* the deployment never before the account is loaded.
C2_FixedOrder ==
    /\ \A r \in 1..run :
         LET s == RunEntries(r) IN
           /\ Len(s) <= Len(StepOrder)
           /\ \A i \in 1..Len(s) :
                /\ s[i].op = StepOrder[i]
                /\ i > 1 => s[i-1].ok
    /\ \A i \in Entries("transferOwnership") :
         /\ log[i].args.contract \in DOMAIN contracts
         /\ contracts[log[i].args.contract].run = log[i].run
    /\ \A i \in Entries("deploy") : log[i].from \in Deployers

C2_Witness ==
    /\ pc = "done"
    /\ Len(RunEntries(run)) = 4

\* C3: a failed step ends the run: within a run nothing is performed after
\* a failed step (no later step, no second attempt), and from the faulted
\* position the only thing that can happen is that the operator starts
\* another run.
C3_FaultEndsRun ==
    /\ [](\A r \in 1..run :
            LET s == RunEntries(r) IN
              \A i \in 1..Len(s) : ~s[i].ok => i = Len(s))
    /\ []((pc = "faulted") <=>
            (run > 0 /\ RunEntries(run) # << >> /\ ~RunEntries(run)[Len(RunEntries(run))].ok))
    /\ [][pc = "faulted" =>
            /\ pc' = "start"
            /\ run' = run + 1
            /\ log' = log
            /\ contracts' = contracts]_vars

C3_Witness ==
    /\ pc = "start"
    /\ run = 2
    /\ \E op \in {"load", "lookup", "deploy", "transferOwnership"} :
         /\ LastOp = op
         /\ ~log[Len(log)].ok
         /\ log[Len(log)].run = 1

\* C4: in one run the deployment call is issued at most once and the
\* transferOwnership call at most once, and one run creates at most one
\* injector contract.
C4_AtMostOnce ==
    \A r \in 1..run :
      /\ Cardinality({ i \in Entries("deploy") : log[i].run = r }) <= 1
      /\ Cardinality({ i \in Entries("transferOwnership") : log[i].run = r }) <= 1
      /\ Cardinality({ k \in DOMAIN contracts : contracts[k].run = r }) <= 1

C4_Witness ==
    /\ pc = "done"
    /\ Len(contracts) = 2
    /\ Cardinality(Entries("deploy")) = 2
    /\ Cardinality(Entries("transferOwnership")) = 2

\* C5: whenever the deployment is submitted, the registry argument and the
\* token argument are both non-empty, well-formed address strings.
C5_DeployArgsAreAddresses ==
    \A i \in Entries("deploy") :
      /\ log[i].args.registry # ""
      /\ IsAddressString(log[i].args.registry)
      /\ log[i].args.token # ""
      /\ IsAddressString(log[i].args.token)

\* C6: on chain 42161 and on chain 137 the registry argument of the
\* deployment is the literal stored for that chain, never that of the other
\* chain.
C6_RegistryOfChain ==
    \A i \in Entries("deploy") :
      /\ log[i].chain \in {42161, 137}
      /\ log[i].chain = 42161 =>
           /\ log[i].args.registry = "0x75c0530885F385721fddA23C539AF3701d6183D4"
           /\ log[i].args.registry # "0x02777053d6764996e594c3E88AF1D58D5363a2e6"
      /\ log[i].chain = 137 =>
           /\ log[i].args.registry = "0x02777053d6764996e594c3E88AF1D58D5363a2e6"
           /\ log[i].args.registry # "0x75c0530885F385721fddA23C539AF3701d6183D4"
      /\ log[i].ok =>
           \E k \in DOMAIN contracts :
             /\ contracts[k].run = log[i].run
             /\ contracts[k].registry = log[i].args.registry

C6_Witness ==
    \E i, j \in Entries("deploy") : log[i].chain = 137 /\ log[j].chain = 42161

\* C7: the minWaitPeriodSeconds argument of every deployment is 6 days in
\* seconds, 6 * 24 * 60 * 60 = 518400.
C7_MinWaitIsSixDays ==
    \A i \in Entries("deploy") :
      log[i].args.minWaitPeriodSeconds = 6 * 24 * 60 * 60

\* C8: a run on a chain other than 42161 and 137 never gets past the
\* registry lookup: the lookup, when reached, faults, no deployment and no
\* transferOwnership is ever sent in that run and no contract exists on
\* that chain.
C8_UnknownChainSendsNothing ==
    /\ \A i \in DOMAIN log :
         log[i].chain \notin {42161, 137} =>
           /\ log[i].op \in {"load", "lookup"}
           /\ log[i].op = "lookup" => ~log[i].ok
    /\ \A k \in DOMAIN contracts : contracts[k].chain \in {42161, 137}
    /\ (run > 0 /\ chainId \notin {42161, 137}) =>
         /\ pc \in {"start", "loaded", "faulted"}
         /\ injector = 0
         /\ registry = NoRegistry
         /\ (pc = "faulted" /\ account # NoAccount) => LastOp = "lookup"

C8_Witness ==
    /\ pc = "faulted"
    /\ chainId \in OtherChains
    /\ account \in Deployers
    /\ LastOp = "lookup"

\* C9: a deployed injector on which no transferOwnership has succeeded is
\* owned by the deployer account of its run; a run that faults at
\* transferOwnership leaves the contract deployed and owned by the deployer,
\* not by ADMIN_ADDRESS.
C9_DeployerOwnsUntilTransfer ==
    /\ \A k \in DOMAIN contracts :
         (~\E i \in Entries("transferOwnership") : log[i].ok /\ log[i].args.contract = k) =>
           /\ contracts[k].owner \in Deployers
           /\ contracts[k].owner # "0xc38c5f97B34E175FFd35407fc91a937300E33860"
           /\ \E i \in Entries("deploy") :
                /\ log[i].ok
                /\ log[i].run = contracts[k].run
                /\ RunEntries(log[i].run)[1].args.result = contracts[k].owner
    /\ pc = "deployed" \/ (pc = "faulted" /\ LastOp = "transferOwnership") =>
         /\ injector \in DOMAIN contracts
         /\ contracts[injector].owner = account
         /\ account \in Deployers
    /\ \A i \in Entries("transferOwnership") :
         ~log[i].ok =>
           /\ log[i].args.contract \in DOMAIN contracts
           /\ contracts[log[i].args.contract].owner = RunEntries(log[i].run)[1].args.result

C9_Witness ==
    /\ pc = "faulted"
    /\ LastOp = "transferOwnership"
    /\ injector \in DOMAIN contracts
    /\ contracts[injector].owner = account

\* C10: the token argument of every deployment is TOKEN_ADDRESS whatever
\* the chain; deployments on 42161 and on 137 differ only in the registry
\* argument; no step reads LINK_BY_CHAIN or UPKEEP_CALLER_ADDRESS and no
\* LINK address reaches a call; the deployment and the transferOwnership of
\* a run are sent from the account that run loaded.
C10_TokenIndependentOfChain ==
    /\ \A i \in Entries("deploy") :
         /\ log[i].args.token = ""
         /\ "TOKEN_ADDRESS" \in log[i].reads
         /\ log[i].args.token \notin { LINK_BY_CHAIN[c] : c \in DOMAIN LINK_BY_CHAIN }
         /\ log[i].args.registry \notin { LINK_BY_CHAIN[c] : c \in DOMAIN LINK_BY_CHAIN }
    /\ \A i, j \in Entries("deploy") :
         /\ log[i].args.token = log[j].args.token
         /\ log[i].args.minWaitPeriodSeconds = log[j].args.minWaitPeriodSeconds
         /\ (log[i].args.registry # log[j].args.registry) <=> (log[i].chain # log[j].chain)
    /\ \A i \in DOMAIN log :
         /\ "LINK_BY_CHAIN" \notin log[i].reads
         /\ "UPKEEP_CALLER_ADDRESS" \notin log[i].reads
         /\ log[i].op \in {"deploy", "transferOwnership"} =>
              /\ log[i].from \in Deployers
              /\ log[i].from = RunEntries(log[i].run)[1].args.result
    /\ \A i \in Entries("transferOwnership") :
         log[i].args.to \notin { LINK_BY_CHAIN[c] : c \in DOMAIN LINK_BY_CHAIN }

C10_Witness ==
    \E i, j \in Entries("deploy") :
      /\ log[i].chain = 42161
      /\ log[j].chain = 137
      /\ log[i].ok
      /\ log[j].ok
      /\ \E t \in Entries("transferOwnership") : log[t].run = log[j].run

====
